---- MODULE Spec2Model ----
(***************************************************************************)
(* Model of examples/spacenet/vegas/all.py: SpacenetVegas.exp_main and the *)
(* functions it calls (str_to_bool, SpacenetConfig.create,                 *)
(* validate_options, VectorTileOptions.build, build_task, build_backend,   *)
(* build_dataset with get_scene_ids and the seeded train/validation        *)
(* split).                                                                 *)
(*                                                                         *)
(* Python strings are sequences of ASCII codes, so that str.lower,         *)
(* str.upper and str.split are computed and not assumed.  Scene IDs are    *)
(* strings of decimal digits, kept as sequences of digits 0..9, so that    *)
(* sorted() is the lexicographic string order ("10" < "1000" < "2").       *)
(***************************************************************************)
EXTENDS Integers, Sequences, FiniteSets, TLC

\* ------------------------------------------------------------------ bounds
\* longest directory listing enumerated exhaustively (every order, every
\* combination of the small path universe)
MaxSmall == 3
\* longest directory listing of the numbered family 1..n
MaxScenes == 21

\* --------------------------------------------------------- program constants
SEED == 5678
SplitRatioNum == 8
SplitRatioDen == 10
TestTrainScenes == 16
TestValScenes == 4

BUILDINGS == <<98, 117, 105, 108, 100, 105, 110, 103, 115>>  \* 'buildings'
ROADS == <<114, 111, 97, 100, 115>>  \* 'roads'
\* rastervision's task-type constants are the upper-case names (exp_main
\* upper-cases the task_type it is given before comparing with them)
SEMANTIC_SEGMENTATION == <<83, 69, 77, 65, 78, 84, 73, 67, 95, 83, 69, 71, 77, 69, 78, 84, 65, 84, 73, 79, 78>>
CHIP_CLASSIFICATION == <<67, 72, 73, 80, 95, 67, 76, 65, 83, 83, 73, 70, 73, 67, 65, 84, 73, 79, 78>>
OBJECT_DETECTION == <<79, 66, 74, 69, 67, 84, 95, 68, 69, 84, 69, 67, 84, 73, 79, 78>>
\* the scene that is missing on S3: the string '1000'
ID1000 == <<1, 0, 0, 0>>

\* ------------------------------------------------------------ Python values
PyBool(b) == [type |-> "bool", val |-> <<IF b THEN 1 ELSE 0>>]
PyStr(s) == [type |-> "str", val |-> s]
PyInt(n) == [type |-> "int", val |-> <<n>>]
PyNone == [type |-> "NoneType", val |-> <<>>]

\* `if x:` on a Python value
Truthy(x) ==
    CASE x.type = "bool" -> x.val[1] = 1
      [] x.type = "int" -> x.val[1] # 0
      [] x.type = "str" -> Len(x.val) > 0
      [] OTHER -> FALSE

\* str.lower() and str.upper() on ASCII text
Lower(s) == [i \in 1..Len(s) |-> IF s[i] \in 65..90 THEN s[i] + 32 ELSE s[i]]
Upper(s) == [i \in 1..Len(s) |-> IF s[i] \in 97..122 THEN s[i] - 32 ELSE s[i]]

\* str.split(','): the fields between the commas (code 44)
RECURSIVE SplitFrom(_, _, _)
SplitFrom(s, i, cur) ==
    IF i > Len(s) THEN <<cur>>
    ELSE IF s[i] = 44 THEN <<cur>> \o SplitFrom(s, i + 1, <<>>)
    ELSE SplitFrom(s, i + 1, Append(cur, s[i]))
Split(s) == SplitFrom(s, 1, <<>>)

\* int(s) on text without sign, blanks or underscores: defined exactly for
\* a non-empty run of decimal digits, ValueError otherwise
IsIntLiteral(s) == Len(s) > 0 /\ \A i \in 1..Len(s) : s[i] \in 48..57
RECURSIVE IntOf(_)
IntOf(s) == IF Len(s) = 0 THEN 0
            ELSE 10 * IntOf(SubSeq(s, 1, Len(s) - 1)) + (s[Len(s)] - 48)

\* ------------------------------------------------------------------ str_to_bool
\* The outcome of str_to_bool(x): the value returned, or the ValueError.
\* (faulty variant: compares without lower())
str_to_bool_cs(x) ==
    IF x.type = "str"
    THEN IF x.val = <<116, 114, 117, 101>> THEN [raised |-> FALSE, value |-> PyBool(TRUE)]
         ELSE IF x.val = <<102, 97, 108, 115, 101>> THEN [raised |-> FALSE, value |-> PyBool(FALSE)]
         ELSE [raised |-> TRUE, value |-> x]
    ELSE [raised |-> FALSE, value |-> x]
str_to_bool(x) ==
    IF x.type = "str"
    THEN IF Lower(x.val) = <<116, 114, 117, 101>> THEN [raised |-> FALSE, value |-> PyBool(TRUE)]
         ELSE IF Lower(x.val) = <<102, 97, 108, 115, 101>> THEN [raised |-> FALSE, value |-> PyBool(FALSE)]
         ELSE [raised |-> TRUE, value |-> x]
    ELSE [raised |-> FALSE, value |-> x]

\* ------------------------------------------------------- SpacenetConfig.create
create(target) ==
    IF Lower(target) = BUILDINGS THEN "VegasBuildings"
    ELSE IF Lower(target) = ROADS THEN "VegasRoads"
    ELSE "ValueError: not a valid target."

\* ------------------------------------------------------------ validate_options
\* The ValueError validate_options raises, or "none"; the checks run in the
\* order of the code and the first one that fails decides.
\* (faulty variant: the roads / object detection check left out)
validate_options_no_roads_check(task_type, target, vto) ==
    IF task_type \notin {SEMANTIC_SEGMENTATION, CHIP_CLASSIFICATION, OBJECT_DETECTION}
    THEN "ValueError: not a valid task_type"
    ELSE IF target \notin {ROADS, BUILDINGS}
    THEN "ValueError: not a valid target"
    ELSE IF vto.type # "NoneType" /\ Len(Split(vto.val)) # 3
    THEN "ValueError: vector_tile_options needs to have 3 comma-delimited values"
    ELSE "none"
validate_options(task_type, target, vto) ==
    IF task_type \notin {SEMANTIC_SEGMENTATION, CHIP_CLASSIFICATION, OBJECT_DETECTION}
    THEN "ValueError: not a valid task_type"
    ELSE IF target \notin {ROADS, BUILDINGS}
    THEN "ValueError: not a valid target"
    ELSE IF target = ROADS /\ task_type \in {OBJECT_DETECTION}
    THEN "ValueError: not valid task_type for target=roads"
    ELSE IF vto.type # "NoneType" /\ Len(Split(vto.val)) # 3
    THEN "ValueError: vector_tile_options needs to have 3 comma-delimited values"
    ELSE "none"

\* -------------------------------------------------------------- get_scene_ids
\* A label path stands for  <dir>/<stem><label_fn_prefix><digits>.geojson ;
\* digits = <<>> is a .geojson file whose name lacks the prefix-and-digits
\* shape.  label_re = '.*<prefix>(\d+)\.geojson' lets the stem be anything.
Path(stem, digits) == [stem |-> stem, digits |-> digits]
label_re_matches(label_path) == Len(label_path.digits) > 0
label_re_group1(label_path) == label_path.digits
\* the list comprehension: one ID per label path, in listing order
get_scene_ids(label_paths) ==
    [i \in 1..Len(label_paths) |-> label_re_group1(label_paths[i])]

\* ----------------------------------------------------------------- sorted()
\* a < b on strings of digits: the first differing character decides, a
\* proper prefix is smaller
StrLess(a, b) ==
    \E i \in 1..(Len(a) + 1) :
        /\ i <= Len(b)
        /\ \A k \in 1..(i - 1) : a[k] = b[k]
        /\ (i = Len(a) + 1 \/ a[i] < b[i])
RECURSIVE Insert(_, _)
Insert(x, s) ==
    IF Len(s) = 0 THEN <<x>>
    ELSE IF StrLess(x, Head(s)) THEN <<x>> \o s
    ELSE <<Head(s)>> \o Insert(x, Tail(s))
RECURSIVE InsertionSort(_)
InsertionSort(s) == IF Len(s) = 0 THEN <<>> ELSE Insert(s[Len(s)], InsertionSort(SubSeq(s, 1, Len(s) - 1)))
\* (faulty variant: the listing order kept)
sorted_unsorted(s) == s
sorted(s) == InsertionSort(s)

\* ----------------------------------------------- random.seed(5678); shuffle
\* random.shuffle(x) is  for i in reversed(range(1, len(x))):
\*                           j = randbelow(i + 1); x[i], x[j] = x[j], x[i]
\* ShuffleDraws[n + 1][i] is the j that the Mersenne Twister seeded with
\* SEED draws at step i when len(x) = n (CPython 3, tabulated for n <= 25).
ShuffleDraws == <<
    <<>>,
    <<>>,
    <<0>>,
    <<0, 2>>,
    <<1, 0, 1>>,
    <<1, 2, 0, 1>>,
    <<1, 2, 0, 1, 5>>,
    <<0, 1, 3, 0, 1, 5>>,
    <<0, 2, 3, 3, 4, 0, 3>>,
    <<0, 1, 1, 3, 3, 4, 0, 3>>,
    <<0, 2, 3, 1, 4, 3, 7, 0, 3>>,
    <<0, 2, 3, 1, 4, 3, 7, 0, 3, 10>>,
    <<0, 2, 3, 1, 4, 3, 7, 8, 0, 3, 10>>,
    <<1, 2, 1, 3, 1, 4, 7, 7, 8, 0, 3, 10>>,
    <<0, 2, 3, 1, 4, 3, 2, 7, 7, 8, 0, 3, 10>>,
    <<1, 1, 1, 3, 1, 4, 7, 2, 7, 7, 8, 0, 3, 10>>,
    <<1, 1, 1, 3, 5, 6, 3, 7, 2, 9, 7, 7, 8, 0, 7>>,
    <<1, 1, 1, 3, 5, 6, 3, 8, 7, 2, 9, 7, 7, 8, 0, 7>>,
    <<1, 2, 3, 1, 4, 6, 7, 3, 8, 7, 2, 12, 9, 7, 15, 0, 7>>,
    <<1, 2, 3, 1, 4, 6, 7, 3, 8, 7, 2, 12, 9, 7, 15, 16, 0, 7>>,
    <<0, 1, 2, 2, 4, 3, 3, 7, 3, 8, 7, 2, 12, 9, 14, 15, 16, 0, 7>>,
    <<0, 1, 2, 2, 4, 3, 3, 7, 3, 8, 7, 2, 12, 9, 14, 15, 16, 0, 7, 20>>,
    <<0, 0, 2, 2, 2, 4, 6, 3, 8, 7, 11, 3, 8, 7, 4, 14, 15, 16, 0, 7, 20>>,
    <<0, 0, 2, 2, 2, 4, 6, 3, 8, 7, 11, 3, 8, 14, 14, 4, 14, 15, 16, 0, 7, 20>>,
    <<1, 1, 0, 1, 2, 2, 5, 8, 6, 3, 8, 7, 11, 12, 6, 14, 4, 14, 15, 16, 0, 7, 20>>,
    <<1, 1, 2, 0, 1, 6, 4, 5, 5, 8, 6, 3, 8, 12, 15, 6, 14, 4, 14, 15, 16, 0, 7, 20>>
  >>
\* x[i], x[j] = x[j], x[i]   (positions counted from 1 here)
Swap(x, i, j) == [k \in 1..Len(x) |-> IF k = i THEN x[j] ELSE IF k = j THEN x[i] ELSE x[k]]
RECURSIVE ShuffleFrom(_, _, _)
ShuffleFrom(x, draws, i) ==
    IF i < 1 THEN x ELSE ShuffleFrom(Swap(x, i + 1, draws[i] + 1), draws, i - 1)
random_shuffle(x) == ShuffleFrom(x, ShuffleDraws[Len(x) + 1], Len(x) - 1)

\* ----------------------------------------------------------- list.remove(v)
\* removes the first occurrence of v (the code calls it only when v is in s)
RECURSIVE list_remove(_, _)
list_remove(s, v) ==
    IF Len(s) = 0 THEN s
    ELSE IF Head(s) = v THEN Tail(s)
    ELSE <<Head(s)>> \o list_remove(Tail(s), v)
In(v, s) == \E i \in 1..Len(s) : s[i] = v

\* -------------------------------------------------------------------- round()
\* Python's round(num / den) for num >= 0, den > 0: nearest integer, a tie
\* goes to the even neighbour.
PyRound(num, den) ==
    LET q == num \div den
        r == num % den
    IN  IF 2 * r < den THEN q
        ELSE IF 2 * r > den THEN q + 1
        ELSE IF q % 2 = 0 THEN q ELSE q + 1
\* round(len(scene_ids) * 0.8).  The double n * 0.8 is within 1e-12 of
\* 8n/10 and 8n/10 is never a half-integer, so rounding the exact ratio
\* gives the same integer for every list length a directory can have.
\* (faulty variant: int() in place of round())
train_count_floor(n) == (n * SplitRatioNum) \div SplitRatioDen
train_count(n) == PyRound(n * SplitRatioNum, SplitRatioDen)

\* Python slices s[0:n] and s[n:], with n clamped to len(s)
Min(a, b) == IF a < b THEN a ELSE b
SliceTo(s, n) == SubSeq(s, 1, Min(n, Len(s)))
\* (faulty variant: s[n-1:])
SliceFrom_overlap(s, n) == SubSeq(s, IF n < 1 THEN 1 ELSE Min(n, Len(s)), Len(s))
SliceFrom(s, n) == SubSeq(s, Min(n, Len(s)) + 1, Len(s))

\* ------------------------------------------------------------------ build_task
build_task(task_type, class_map) ==
    IF task_type = SEMANTIC_SEGMENTATION
    THEN [bound |-> TRUE, task_type |-> task_type, chip_size |-> 300, classes |-> class_map]
    ELSE IF task_type = CHIP_CLASSIFICATION
    THEN [bound |-> TRUE, task_type |-> task_type, chip_size |-> 200, classes |-> class_map]
    ELSE IF task_type = OBJECT_DETECTION
    THEN [bound |-> TRUE, task_type |-> task_type, chip_size |-> 300, classes |-> class_map]
    ELSE [bound |-> FALSE, task_type |-> task_type, chip_size |-> 0, classes |-> class_map]

get_class_map(spacenet_config) ==
    IF spacenet_config = "VegasRoads" THEN <<"Road", "Background">>
    ELSE <<"Building", "Background">>

\* --------------------------------------------------------------- build_backend
build_backend(task, test) ==
    LET debug == Truthy(test) IN
    IF task.task_type = SEMANTIC_SEGMENTATION
    THEN [batch_size |-> IF Truthy(test) THEN 2 ELSE 8,
          num_epochs |-> IF Truthy(test) THEN 1 ELSE 2,
          model_arch |-> "resnet50", debug |-> debug]
    ELSE IF task.task_type = CHIP_CLASSIFICATION
    THEN [batch_size |-> IF Truthy(test) THEN 2 ELSE 32,
          num_epochs |-> IF Truthy(test) THEN 1 ELSE 2,
          model_arch |-> "resnet18", debug |-> debug]
    ELSE [batch_size |-> IF Truthy(test) THEN 1 ELSE 16,
          num_epochs |-> 2,
          model_arch |-> "resnet18", debug |-> debug]

\* ----------------------------------------------------------------- build_scene
build_scene(task, spacenet_config, id, vto) ==
    [id |-> id,
     vector_source |-> IF vto.is_none THEN "GEOJSON_SOURCE" ELSE "VECTOR_TILE_SOURCE",
     label_source |-> task.task_type,
     label_store |-> IF task.task_type = SEMANTIC_SEGMENTATION /\ spacenet_config = "VegasBuildings"
                     THEN "polygons" ELSE "None"]

\* --------------------------------------------------- build_dataset, as a whole
\* The steps of build_dataset between the emptiness check and the scenes.
\* lines 170-172
\* (faulty variant: '1000' removed before the shuffle)
shuffled_ids_remove_first(scene_ids) ==
    random_shuffle(IF In(ID1000, sorted(scene_ids)) THEN list_remove(sorted(scene_ids), ID1000)
                   ELSE sorted(scene_ids))
shuffled_ids(scene_ids) == random_shuffle(sorted(scene_ids))
\* lines 174-175
without_missing_scene(scene_ids) ==
    IF In(ID1000, scene_ids) THEN list_remove(scene_ids, ID1000) ELSE scene_ids
\* lines 181-185
\* (faulty variant: the two test-mode counts swapped)
num_train_scenes_swapped(test, train_ids) == IF Truthy(test) THEN TestValScenes ELSE Len(train_ids)
num_train_scenes(test, train_ids) == IF Truthy(test) THEN TestTrainScenes ELSE Len(train_ids)
num_val_scenes(test, val_ids) == IF Truthy(test) THEN TestValScenes ELSE Len(val_ids)
\* lines 168-169
\* (faulty variant: the check left out)
no_scenes_never(scene_ids) == FALSE
no_scenes(scene_ids) == Len(scene_ids) = 0

\* the train and validation IDs build_dataset ends with for a listing that
\* gets past the emptiness check
split_ids(label_paths, test) ==
    LET ids == without_missing_scene(shuffled_ids(get_scene_ids(label_paths)))
        n == train_count(Len(ids))
        tr == SliceTo(ids, n)
        va == SliceFrom(ids, n)
    IN  [train_ids |-> SliceTo(tr, num_train_scenes(test, tr)),
         val_ids |-> SliceTo(va, num_val_scenes(test, va))]

\* ---------------------------------------------------------------------- inputs
\* every casing of a lower-case word
Casings(w) ==
    {[i \in 1..Len(w) |-> IF i \in S THEN w[i] - 32 ELSE w[i]] : S \in SUBSET (1..Len(w))}
Capitalised(w) == [i \in 1..Len(w) |-> IF i = 1 THEN w[i] - 32 ELSE w[i]]

RECURSIVE Digits(_)
Digits(k) == IF k < 10 THEN <<k>> ELSE Digits(k \div 10) \o <<k % 10>>

Injective(s) == \A i, j \in 1..Len(s) : s[i] = s[j] => i = j
SmallPaths ==
    {Path("", <<1>>), Path("", <<2>>), Path("", <<3>>), Path("", ID1000),
     Path("copy_of_", ID1000), Path("notes", <<>>)}
\* a directory lists each of its files once
SmallListings ==
    UNION {{s \in [1..n -> SmallPaths] : Injective(s)} : n \in 0..MaxSmall}

\* scenes 1..n, scene w (if any) being scene 1000
Numbered(n, w) == [k \in 1..n |-> Path("", IF k = w THEN ID1000 ELSE Digits(k))]
Reverse(s) == [i \in 1..Len(s) |-> s[Len(s) + 1 - i]]
Rotate(s) == [i \in 1..Len(s) |-> s[(i % Len(s)) + 1]]
NumberedListings ==
    UNION {UNION {{Numbered(n, w), Reverse(Numbered(n, w)), Rotate(Numbered(n, w))}
                  : w \in {0, 1, n}} : n \in 4..MaxScenes}
\* the listing '3', '1', '1000', '2', '5', '4'
MixedListing ==
    <<Path("", <<3>>), Path("", <<1>>), Path("", ID1000), Path("", <<2>>),
      Path("", <<5>>), Path("", <<4>>)>>
Listings == SmallListings \cup NumberedListings \cup {MixedListing}

TestValues ==
    {PyBool(TRUE), PyBool(FALSE), PyInt(0), PyInt(1), PyNone, PyStr(<<>>),
     PyStr(<<121, 101, 115>>), PyStr(<<49>>), PyStr(<<116, 114, 117, 101, 101>>)}
    \cup {PyStr(s) : s \in Casings(<<116, 114, 117, 101>>)}
    \cup {PyStr(s) : s \in Casings(<<102, 97, 108, 115, 101>>)}
TargetValues ==
    Casings(ROADS) \cup {BUILDINGS, Upper(BUILDINGS), Capitalised(BUILDINGS)}
    \cup {<<119, 97, 116, 101, 114>>, <<>>}
TaskTypeValues ==
    {SEMANTIC_SEGMENTATION, Lower(SEMANTIC_SEGMENTATION), Lower(CHIP_CLASSIFICATION),
     Lower(OBJECT_DETECTION), Capitalised(Lower(OBJECT_DETECTION)),
     <<114, 101, 103, 114, 101, 115, 115, 105, 111, 110>>}
VectorTileValues ==
    {PyNone,
     PyStr(<<116, 46, 109, 98, 116, 105, 108, 101, 115, 44, 49, 52, 44, 105, 100>>),
     PyStr(<<116, 46, 109, 98, 116, 105, 108, 101, 115, 44, 49, 52>>),
     PyStr(<<116, 44, 49, 52, 44, 105, 100, 44, 120>>),
     PyStr(<<116, 46, 109, 98, 116, 105, 108, 101, 115, 44, 122, 44, 105, 100>>)}

Call(test, target, task_type, vto, listing) ==
    [test |-> test, target |-> target, task_type |-> task_type,
     vector_tile_options |-> vto, label_paths |-> listing]
\* the calls of exp_main explored: every test value, every combination of
\* the options, and every listing under options that get as far as the split
Calls ==
    {Call(t, BUILDINGS, Lower(SEMANTIC_SEGMENTATION), PyNone, MixedListing) : t \in TestValues}
    \cup {Call(t, g, k, v, MixedListing) :
             t \in {PyBool(TRUE), PyStr(<<70, 97, 108, 115, 101>>)},
             g \in TargetValues, k \in TaskTypeValues, v \in VectorTileValues}
    \cup {Call(t, BUILDINGS, Lower(SEMANTIC_SEGMENTATION), PyNone, l) :
             t \in {PyBool(TRUE), PyBool(FALSE)}, l \in Listings}
    \cup {Call(t, ROADS, Lower(CHIP_CLASSIFICATION), PyStr(<<116, 46, 109, 98, 116, 105, 108, 101, 115, 44, 49, 52, 44, 105, 100>>), l) :
             t \in {PyBool(TRUE), PyBool(FALSE)}, l \in Listings}

\* ----------------------------------------------------------------------- state
VARIABLES
    args,             \* the arguments of the exp_main call and the label directory's listing
    pc,               \* the statement of exp_main / build_dataset to run next
    calls,            \* the functions entered so far, in order
    error,            \* the exception that ended the call, or "none"
    test,             \* exp_main's local `test`
    exp_id,
    task_type,        \* exp_main's local `task_type`
    spacenet_config,  \* the class of the configuration object
    vector_tile_options,
    task,
    backend,
    scene_ids,        \* build_dataset's local list
    num_train_ids,
    train_ids,
    val_ids,
    dataset,
    experiment

vars == <<args, pc, calls, error, test, exp_id, task_type, spacenet_config,
          vector_tile_options, task, backend, scene_ids, num_train_ids, train_ids,
          val_ids, dataset, experiment>>
main_locals == <<test, exp_id, task_type, spacenet_config, vector_tile_options, task, backend>>
dataset_locals == <<scene_ids, num_train_ids, train_ids, val_ids, dataset>>

NoOptions == [is_none |-> TRUE, uri |-> <<>>, zoom |-> 0, id_field |-> <<>>]
NoDataset == [built |-> FALSE, train_scenes |-> <<>>, validation_scenes |-> <<>>]
NoExperiment == [built |-> FALSE, id |-> <<>>, dataset |-> NoDataset]

Init ==
    /\ args \in Calls
    /\ pc = "str_to_bool"
    /\ calls = <<>>
    /\ error = "none"
    /\ test = args.test
    /\ exp_id = <<>>
    /\ task_type = args.task_type
    /\ spacenet_config = "unset"
    /\ vector_tile_options = NoOptions
    /\ task = build_task(<<>>, <<>>)
    /\ backend = [batch_size |-> 0, num_epochs |-> 0, model_arch |-> "", debug |-> FALSE]
    /\ scene_ids = <<>>
    /\ num_train_ids = 0
    /\ train_ids = <<>>
    /\ val_ids = <<>>
    /\ dataset = NoDataset
    /\ experiment = NoExperiment

\* line 355: test = str_to_bool(test)
StrToBool ==
    /\ pc = "str_to_bool"
    /\ calls' = Append(calls, "str_to_bool")
    /\ IF str_to_bool(test).raised
       THEN /\ pc' = "error"
            /\ error' = "ValueError: expected to be true or false"
            /\ test' = test
       ELSE /\ pc' = "exp_id"
            /\ error' = error
            /\ test' = str_to_bool(test).value
    /\ UNCHANGED <<args, exp_id, task_type, spacenet_config, vector_tile_options, task,
                   backend, dataset_locals, experiment>>

\* lines 356-357: exp_id = '{}-{}'.format(target, task_type.lower());
\*                task_type = task_type.upper()
MakeExpId ==
    /\ pc = "exp_id"
    /\ exp_id' = args.target \o <<45>> \o Lower(task_type)
    /\ task_type' = Upper(task_type)
    /\ pc' = "create"
    /\ UNCHANGED <<args, calls, error, test, spacenet_config, vector_tile_options, task,
                   backend, dataset_locals, experiment>>

\* line 358: spacenet_config = SpacenetConfig.create(raw_uri, target)
Create ==
    /\ pc = "create"
    /\ calls' = Append(calls, "create")
    /\ IF create(args.target) \in {"VegasBuildings", "VegasRoads"}
       THEN /\ spacenet_config' = create(args.target)
            /\ pc' = "validate_options"
            /\ error' = error
       ELSE /\ spacenet_config' = spacenet_config
            /\ pc' = "error"
            /\ error' = create(args.target)
    /\ UNCHANGED <<args, test, exp_id, task_type, vector_tile_options, task, backend,
                   dataset_locals, experiment>>

\* line 359: validate_options(task_type, target, vector_tile_options)
ValidateOptions ==
    /\ pc = "validate_options"
    /\ calls' = Append(calls, "validate_options")
    /\ error' = validate_options(task_type, args.target, args.vector_tile_options)
    /\ pc' = IF error' = "none" THEN "VectorTileOptions.build" ELSE "error"
    /\ UNCHANGED <<args, main_locals, dataset_locals, experiment>>

\* line 360: vector_tile_options = VectorTileOptions.build(vector_tile_options)
BuildVectorTileOptions ==
    /\ pc = "VectorTileOptions.build"
    /\ calls' = Append(calls, "VectorTileOptions.build")
    /\ IF args.vector_tile_options.type = "NoneType"
       THEN /\ vector_tile_options' = NoOptions
            /\ pc' = "build_task"
            /\ error' = error
       ELSE LET fields == Split(args.vector_tile_options.val) IN
            IF IsIntLiteral(fields[2])
            THEN /\ vector_tile_options' = [is_none |-> FALSE, uri |-> fields[1],
                                            zoom |-> IntOf(fields[2]), id_field |-> fields[3]]
                 /\ pc' = "build_task"
                 /\ error' = error
            ELSE /\ vector_tile_options' = vector_tile_options
                 /\ pc' = "error"
                 /\ error' = "ValueError: invalid literal for int()"
    /\ UNCHANGED <<args, test, exp_id, task_type, spacenet_config, task, backend,
                   dataset_locals, experiment>>

\* line 362: task = build_task(task_type, spacenet_config.get_class_map())
BuildTask ==
    /\ pc = "build_task"
    /\ calls' = Append(calls, "build_task")
    /\ task' = build_task(task_type, get_class_map(spacenet_config))
    /\ pc' = IF task'.bound THEN "build_backend" ELSE "error"
    /\ error' = IF task'.bound THEN error ELSE "UnboundLocalError: task"
    /\ UNCHANGED <<args, test, exp_id, task_type, spacenet_config, vector_tile_options,
                   backend, dataset_locals, experiment>>

\* lines 363-365: backend = build_backend(task, test); the analyzer
BuildBackend ==
    /\ pc = "build_backend"
    /\ calls' = Append(calls, "build_backend")
    /\ backend' = build_backend(task, test)
    /\ pc' = "get_scene_ids"
    /\ UNCHANGED <<args, error, test, exp_id, task_type, spacenet_config,
                   vector_tile_options, task, dataset_locals, experiment>>

\* lines 366, 167: build_dataset is entered and lists the label directory;
\* a path the pattern does not match makes match() return None
GetSceneIds ==
    /\ pc = "get_scene_ids"
    /\ calls' = calls \o <<"build_dataset", "get_scene_ids">>
    /\ IF \A i \in 1..Len(args.label_paths) : label_re_matches(args.label_paths[i])
       THEN /\ scene_ids' = get_scene_ids(args.label_paths)
            /\ pc' = "check_scenes"
            /\ error' = error
       ELSE /\ scene_ids' = scene_ids
            /\ pc' = "error"
            /\ error' = "AttributeError: NoneType has no attribute group"
    /\ UNCHANGED <<args, main_locals, num_train_ids, train_ids, val_ids, dataset, experiment>>

\* lines 168-169
CheckScenes ==
    /\ pc = "check_scenes"
    /\ pc' = IF no_scenes(scene_ids) THEN "error" ELSE "shuffle"
    /\ error' = IF no_scenes(scene_ids) THEN "ValueError: No scenes found" ELSE error
    /\ UNCHANGED <<args, calls, main_locals, dataset_locals, experiment>>

\* lines 170-172: seed, sort, shuffle
SortAndShuffle ==
    /\ pc = "shuffle"
    /\ calls' = calls \o <<"random.seed", "sorted", "random.shuffle">>
    /\ scene_ids' = shuffled_ids(scene_ids)
    /\ pc' = "remove_1000"
    /\ UNCHANGED <<args, error, main_locals, num_train_ids, train_ids, val_ids, dataset,
                   experiment>>

\* lines 174-175
RemoveMissingScene ==
    /\ pc = "remove_1000"
    /\ calls' = IF In(ID1000, scene_ids) THEN Append(calls, "remove") ELSE calls
    /\ scene_ids' = without_missing_scene(scene_ids)
    /\ pc' = "split"
    /\ UNCHANGED <<args, error, main_locals, num_train_ids, train_ids, val_ids, dataset,
                   experiment>>

\* lines 176-179
SplitIds ==
    /\ pc = "split"
    /\ calls' = Append(calls, "round")
    /\ num_train_ids' = train_count(Len(scene_ids))
    /\ train_ids' = SliceTo(scene_ids, num_train_ids')
    /\ val_ids' = SliceFrom(scene_ids, num_train_ids')
    /\ pc' = "truncate"
    /\ UNCHANGED <<args, error, main_locals, scene_ids, dataset, experiment>>

\* lines 181-187
TruncateForTest ==
    /\ pc = "truncate"
    /\ train_ids' = SliceTo(train_ids, num_train_scenes(test, train_ids))
    /\ val_ids' = SliceTo(val_ids, num_val_scenes(test, val_ids))
    /\ pc' = "build_scenes"
    /\ UNCHANGED <<args, calls, error, main_locals, scene_ids, num_train_ids, dataset,
                   experiment>>

\* lines 188-200: the scenes and the dataset
BuildScenes ==
    /\ pc = "build_scenes"
    /\ calls' = calls \o [i \in 1..(Len(train_ids) + Len(val_ids)) |-> "build_scene"]
    /\ dataset' =
          [built |-> TRUE,
           train_scenes |-> [i \in 1..Len(train_ids) |->
               build_scene(task, spacenet_config, train_ids[i], vector_tile_options)],
           validation_scenes |-> [i \in 1..Len(val_ids) |->
               build_scene(task, spacenet_config, val_ids[i], vector_tile_options)]]
    /\ pc' = "experiment"
    /\ UNCHANGED <<args, error, main_locals, scene_ids, num_train_ids, train_ids, val_ids,
                   experiment>>

\* lines 370-379
BuildExperiment ==
    /\ pc = "experiment"
    /\ experiment' = [built |-> TRUE, id |-> exp_id, dataset |-> dataset]
    /\ pc' = "done"
    /\ UNCHANGED <<args, calls, error, main_locals, dataset_locals>>

Next ==
    \/ StrToBool
    \/ MakeExpId
    \/ Create
    \/ ValidateOptions
    \/ BuildVectorTileOptions
    \/ BuildTask
    \/ BuildBackend
    \/ GetSceneIds
    \/ CheckScenes
    \/ SortAndShuffle
    \/ RemoveMissingScene
    \/ SplitIds
    \/ TruncateForTest
    \/ BuildScenes
    \/ BuildExperiment

Spec == Init /\ [][Next]_vars

\* ------------------------------------------------------------------ properties
Range(s) == {s[i] : i \in 1..Len(s)}
Count(s, v) == Cardinality({i \in 1..Len(s) : s[i] = v})
SameBag(s, t) == Len(s) = Len(t) /\ \A v \in Range(s) \cup Range(t) : Count(s, v) = Count(t, v)
IsPrefix(s, t) == Len(s) <= Len(t) /\ \A i \in 1..Len(s) : s[i] = t[i]

\* the IDs in the file names of the listing, one per label path
DiscoveredIds == [i \in 1..Len(args.label_paths) |-> args.label_paths[i].digits]
AllPathsMatch == \A i \in 1..Len(args.label_paths) : Len(args.label_paths[i].digits) > 0
\* how many IDs are left once '1000' has been taken out of the list
Remaining == Len(DiscoveredIds) - (IF ID1000 \in Range(DiscoveredIds) THEN 1 ELSE 0)
AfterCheck == {"shuffle", "remove_1000", "split", "truncate", "build_scenes", "experiment", "done"}

\* C1: two runs whose listings hold the same scene IDs, in whatever order,
\* and the same test flag end with the same train and validation sequences:
\* the sequences of a finished run are those of every other listing of the
\* same IDs.
C1_OrderIndependent ==
    pc = "done" =>
        \A l \in Listings :
            (\A i \in 1..Len(l) : Len(l[i].digits) > 0)
            /\ SameBag([i \in 1..Len(l) |-> l[i].digits], DiscoveredIds)
            => split_ids(l, test) = [train_ids |-> train_ids, val_ids |-> val_ids]
C1_Witness ==
    /\ pc = "done"
    /\ Len(train_ids) >= 2
    /\ \E l \in Listings :
          /\ l # args.label_paths
          /\ SameBag([i \in 1..Len(l) |-> l[i].digits], DiscoveredIds)

\* C2: '1000' is in neither the train nor the validation sequence of a
\* finished build_dataset, and every ID of either sequence was discovered.
C2_ExcludedIdAbsent ==
    pc = "done" =>
        /\ ID1000 \notin Range(train_ids) \cup Range(val_ids)
        /\ Range(train_ids) \cup Range(val_ids) \subseteq Range(DiscoveredIds)

\* C3: when the discovered IDs are pairwise distinct, train and validation
\* share no ID and together are no longer than the list of discovered IDs.
C3_Disjoint ==
    (pc \in {"truncate", "build_scenes", "experiment", "done"}
     /\ Len(DiscoveredIds) > 0
     /\ \A i, j \in 1..Len(DiscoveredIds) : DiscoveredIds[i] = DiscoveredIds[j] => i = j)
    => /\ Range(train_ids) \cap Range(val_ids) = {}
       /\ Len(train_ids) + Len(val_ids) <= Len(DiscoveredIds)
C3_Witness ==
    /\ pc = "done"
    /\ \A i, j \in 1..Len(DiscoveredIds) : DiscoveredIds[i] = DiscoveredIds[j] => i = j
    /\ Len(train_ids) >= 2
    /\ Len(val_ids) >= 1

\* C4 as stated: when no ID other than '1000' is discovered, build_dataset
\* raises, so it never gets past the emptiness check and builds no dataset.
C4_RaisesWhenEmptyAfterFilter ==
    (AllPathsMatch /\ Range(DiscoveredIds) \subseteq {ID1000})
    => pc \notin AfterCheck /\ ~dataset.built /\ ~experiment.built
\* C4 amended: build_dataset raises 'No scenes found' exactly when nothing
\* is discovered, and then builds no scene and returns no dataset; when
\* '1000' is the one discovered ID it raises nothing and returns a dataset
\* whose train and validation lists are empty.
C4_RaisesWhenNothingDiscovered ==
    /\ Len(args.label_paths) = 0
       => /\ pc \notin AfterCheck
          /\ "build_scene" \notin Range(calls)
          /\ ~dataset.built /\ ~experiment.built
    /\ error = "ValueError: No scenes found" => Len(args.label_paths) = 0
    /\ (pc \in AfterCheck /\ DiscoveredIds = <<ID1000>>) => error = "none"
    /\ (pc = "done" /\ DiscoveredIds = <<ID1000>>)
       => dataset.built /\ train_ids = <<>> /\ val_ids = <<>>
          /\ dataset.train_scenes = <<>> /\ dataset.validation_scenes = <<>>
C4_Witness ==
    /\ pc = "error"
    /\ error = "ValueError: No scenes found"
    /\ "get_scene_ids" \in Range(calls)
    /\ Len(args.label_paths) = 0

\* C5 as stated: in test mode, 20 discovered IDs give 16 train IDs and 4
\* validation IDs, prefixes of the sequences the listing gives with test
\* mode off.
C5_TwentyDiscovered ==
    (pc = "done" /\ Truthy(test) /\ Len(DiscoveredIds) = 20)
    => /\ Len(train_ids) = 16 /\ Len(val_ids) = 4
       /\ IsPrefix(train_ids, split_ids(args.label_paths, PyBool(FALSE)).train_ids)
       /\ IsPrefix(val_ids, split_ids(args.label_paths, PyBool(FALSE)).val_ids)
\* C5 amended: in test mode, 20 IDs left after '1000' has been removed give
\* 16 train IDs and 4 validation IDs, prefixes of the sequences the listing
\* gives with test mode off.
C5_TwentyRemaining ==
    (pc = "done" /\ Truthy(test) /\ Remaining = 20)
    => /\ Len(train_ids) = 16 /\ Len(val_ids) = 4
       /\ IsPrefix(train_ids, split_ids(args.label_paths, PyBool(FALSE)).train_ids)
       /\ IsPrefix(val_ids, split_ids(args.label_paths, PyBool(FALSE)).val_ids)
C5_Witness ==
    /\ pc = "done" /\ Truthy(test) /\ Remaining = 20
    /\ ID1000 \in Range(DiscoveredIds)
    /\ Len(train_ids) = 16

\* C6: with test mode off and N >= 1 IDs left after removing '1000', train
\* has round(0.8 N) IDs (the one integer within 1/2 of 8N/10), validation
\* the other N - round(0.8 N), and train followed by validation holds the
\* N remaining IDs.
C6_SplitCounts ==
    (pc = "done" /\ ~Truthy(test) /\ Remaining >= 1)
    => /\ 10 * Len(train_ids) - 8 * Remaining \in -4..4
       /\ Len(val_ids) = Remaining - Len(train_ids)
       /\ IF ID1000 \in Range(DiscoveredIds)
          THEN SameBag(train_ids \o val_ids \o <<ID1000>>, DiscoveredIds)
          ELSE SameBag(train_ids \o val_ids, DiscoveredIds)
C6_Witness ==
    /\ pc = "done" /\ ~Truthy(test)
    /\ Remaining = 7
    /\ ID1000 \in Range(DiscoveredIds)
    /\ Len(train_ids) = 6 /\ Len(val_ids) = 1

\* C7: a call with invalid options (an unsupported task type, a target that
\* is neither buildings nor roads, roads with object detection, or vector
\* tile options that are not three comma-separated fields) ends in an error
\* before scene discovery and the split, and returns no experiment.
InvalidOptions ==
    \/ Upper(args.task_type) \notin {SEMANTIC_SEGMENTATION, CHIP_CLASSIFICATION, OBJECT_DETECTION}
    \/ Lower(args.target) \notin {BUILDINGS, ROADS}
    \/ Lower(args.target) = ROADS /\ Upper(args.task_type) = OBJECT_DETECTION
    \/ /\ args.vector_tile_options.type = "str"
       /\ Count(args.vector_tile_options.val, 44) # 2
C8_TargetCaseInsensitive ==
    (/\ Lower(args.target) \in {BUILDINGS, ROADS}
     /\ Upper(args.task_type) \in {SEMANTIC_SEGMENTATION, CHIP_CLASSIFICATION, OBJECT_DETECTION}
     /\ ~(Lower(args.target) = ROADS /\ Upper(args.task_type) = OBJECT_DETECTION))
    => /\ error \notin {"ValueError: not a valid target", "ValueError: not a valid target."}
       /\ "create" \in Range(calls)
          => spacenet_config = (IF Lower(args.target) = ROADS THEN "VegasRoads" ELSE "VegasBuildings")

\* C9 as stated: str_to_bool gives True for any casing of 'true', False for
\* any casing of 'false', a boolean unchanged, and raises for every other
\* value.
C9_OtherValuesRaise ==
    pc # "str_to_bool" =>
        IF args.test.type = "str" /\ args.test.val \in Casings(<<116, 114, 117, 101>>)
        THEN test = PyBool(TRUE) /\ error # "ValueError: expected to be true or false"
        ELSE IF args.test.type = "str" /\ args.test.val \in Casings(<<102, 97, 108, 115, 101>>)
        THEN test = PyBool(FALSE) /\ error # "ValueError: expected to be true or false"
        ELSE IF args.test.type = "bool"
        THEN test = args.test /\ error # "ValueError: expected to be true or false"
        ELSE pc = "error" /\ error = "ValueError: expected to be true or false"
\* C9 amended: str_to_bool gives True for any casing of 'true', False for
\* any casing of 'false', raises for every other string, and returns every
\* value that is not a string unchanged (a boolean, and also None or a
\* number).
C9_OtherStringsRaise ==
    pc # "str_to_bool" =>
        IF args.test.type = "str" /\ args.test.val \in Casings(<<116, 114, 117, 101>>)
        THEN test = PyBool(TRUE) /\ error # "ValueError: expected to be true or false"
        ELSE IF args.test.type = "str" /\ args.test.val \in Casings(<<102, 97, 108, 115, 101>>)
        THEN test = PyBool(FALSE) /\ error # "ValueError: expected to be true or false"
        ELSE IF args.test.type = "str"
        THEN pc = "error" /\ error = "ValueError: expected to be true or false"
        ELSE test = args.test /\ error # "ValueError: expected to be true or false"
C9_Witness ==
    /\ pc = "exp_id"
    /\ args.test.type = "str"
    /\ args.test.val # Lower(args.test.val)
    /\ test = PyBool(FALSE)

\* A reference for the split, written apart from the model of the code:
\* the k-th smallest string by rank, the first '1000' cut out by position.
RefRank(s, i) ==
    Cardinality({j \in 1..Len(s) : StrLess(s[j], s[i]) \/ (s[j] = s[i] /\ j < i)}) + 1
RefSort(s) == [k \in 1..Len(s) |-> s[CHOOSE i \in 1..Len(s) : RefRank(s, i) = k]]
RefRemove(s) ==
    IF ID1000 \notin Range(s) THEN s
    ELSE LET p == CHOOSE i \in 1..Len(s) : s[i] = ID1000 /\ \A j \in 1..(i - 1) : s[j] # ID1000
         IN  SubSeq(s, 1, p - 1) \o SubSeq(s, p + 1, Len(s))
RefCut(s) ==
    LET n == (8 * Len(s) + 5) \div 10
    IN  [train_ids |-> SubSeq(s, 1, n), val_ids |-> SubSeq(s, n + 1, Len(s))]
\* sort, remove, shuffle, cut
RefRemoveThenShuffle(ids) == RefCut(random_shuffle(RefRemove(RefSort(ids))))
\* sort, shuffle, remove, cut
RefShuffleThenRemove(ids) == RefCut(RefRemove(random_shuffle(RefSort(ids))))

====
